---------------------------- MODULE Spec2Model ----------------------------
(***************************************************************************)
(* Model of climlab's _TimeSteppingModel (climlab/timestepping_model.py):  *)
(* the calendar configuration (set_timestep), the per-step time bookkeeping*)
(* (_update_time, _do_new_calendar_year), the step driver (step_forward)   *)
(* and the two integration loops (integrate_years, integrate_days).        *)
(*                                                                         *)
(* The program is single-threaded.  pc is the position of the one thread   *)
(* of control: "idle" between calls, and inside a call the statement that  *)
(* runs next.  Python floats are modelled as exact rationals <<num, den>>  *)
(* (den > 0, lowest terms); <<0, 0>> stands for numpy's nan.  Rounding of  *)
(* binary floating point is not modelled.  The host's state variables are  *)
(* float arrays, modelled as one number per name.  The verbose printing of *)
(* the integration calls changes no state and is left out.                 *)
(***************************************************************************)
EXTENDS Integers, Sequences, FiniteSets, TLC

(***************************************************************************)
(* Bounds of the model.                                                    *)
(***************************************************************************)
\* largest num_steps_per_year a caller passes to set_timestep
MaxN == 2
\* cap on the steps counter: no advance starts at steps = MaxSteps
MaxSteps == 4
\* physical state values are 0..MaxVal
MaxVal == 2
\* integrate_years is called with years in {k/2 : k \in -2..MaxHalfYears}
MaxHalfYears == 2
\* integrate_days is called with days in {200*k : k \in -1..MaxDays200}
MaxDays200 == 2

(***************************************************************************)
(* Exact rational arithmetic standing for Python float arithmetic.         *)
(***************************************************************************)
Abs(x) == IF x < 0 THEN -x ELSE x

\* Euclid's algorithm on a pair of naturals
Euclid[p \in Nat \X Nat] ==
    IF p[2] = 0 THEN p[1] ELSE Euclid[<<p[2], p[1] % p[2]>>]

GCD(a, b) == Euclid[<<a, b>>]

NaN == <<0, 0>>

IsNaN(r) == r[2] = 0

\* lowest terms, positive denominator
Lowest[r \in Int \X Int] ==
    IF r[2] = 0 THEN NaN
    ELSE LET g == GCD(Abs(r[1]), Abs(r[2]))
             s == IF r[2] < 0 THEN -1 ELSE 1
         IN  <<s * (r[1] \div g), s * (r[2] \div g)>>

RNorm(num, den) == Lowest[<<num, den>>]

RInt(i) == <<i, 1>>

RAdd(p, q) ==
    IF IsNaN(p) \/ IsNaN(q) THEN NaN
    ELSE LET g == GCD(p[2], q[2])
         IN  RNorm(p[1] * (q[2] \div g) + q[1] * (p[2] \div g),
                   (p[2] \div g) * q[2])

RMul(p, q) ==
    IF IsNaN(p) \/ IsNaN(q) THEN NaN
    ELSE LET g1 == GCD(Abs(p[1]), q[2])
             g2 == GCD(Abs(q[1]), p[2])
         IN  RNorm((p[1] \div g1) * (q[1] \div g2),
                   (p[2] \div g2) * (q[2] \div g1))

\* p / q for q # 0 (the callers decide what a zero divisor does)
RDiv(p, q) ==
    IF q[1] < 0 THEN RMul(p, <<-q[2], -q[1]>>) ELSE RMul(p, <<q[2], q[1]>>)

\* a variant of PyInt that rounds up instead of truncating
PyInt_rounds_up(r) ==
    IF r[1] % r[2] = 0 THEN r[1] \div r[2] ELSE (r[1] \div r[2]) + 1

\* Python's int() of a float: truncation toward zero
PyInt(r) ==
    IF r[1] >= 0 THEN r[1] \div r[2] ELSE -((-r[1]) \div r[2])

(***************************************************************************)
(* The constants module (import constants as const).                       *)
(***************************************************************************)
days_per_year == <<1826211, 5000>>          \* 365.2422

seconds_per_day == RInt(86400)

seconds_per_year == RMul(seconds_per_day, days_per_year)

\* the default of set_timestep(num_steps_per_year=90), used by __init__
DefaultStepsPerYear == 90

(***************************************************************************)
(* Inputs.                                                                 *)
(***************************************************************************)
\* the state variable set of the host model: names and the values they take
Vars == {"Ts"}

Values == 0..MaxVal

\* what a caller may pass to set_timestep: the code accepts any integer
NInputs == -1..MaxN

ValidNInputs == 1..MaxN

YearsInputs == {RNorm(k, 2) : k \in -2..MaxHalfYears}

DaysInputs == {RInt(200 * k) : k \in -1..MaxDays200}

VARIABLES
    \* parameters written by set_timestep
    num_steps_per_year, timestep, days_of_year,
    \* the time state
    day_of_year_index, steps, days_elapsed, years_elapsed,
    \* the host model's state variables and the persistent average
    state, state_timeave,
    \* control: position, the public call in progress (or last finished),
    \* its argument, its locals, how it ended and what it returned
    pc, op, arg, numsteps, count, outcome, retval,
    \* observers (not program state): the time state at entry of the call,
    \* host mutations completed and host failures seen in the call, time
    \* advances since the last set_timestep, what integrate_years' loop
    \* saw of the state after each step, and the average the engine held
    \* when integrate_years was called
    entry, physDone, hostRaised, advances, postSum, postVals, isRamp,
    entryAve

vars == <<num_steps_per_year, timestep, days_of_year,
          day_of_year_index, steps, days_elapsed, years_elapsed,
          state, state_timeave, pc, op, arg, numsteps, count, outcome,
          retval, entry, physDone, hostRaised, advances, postSum, postVals,
          isRamp, entryAve>>

config == <<num_steps_per_year, timestep, days_of_year>>

timeVars == <<steps, days_elapsed, day_of_year_index, years_elapsed>>

aveObs == <<postSum, postVals, isRamp>>

callObs == <<entry, physDone, hostRaised, entryAve>>

\* no state_timeave attribute: the engine holds no average
NoAve == [v \in {} |-> NaN]

\* the observers of integrate_years' loop, before its first step
ResetAveObs ==
    /\ postSum' = [v \in Vars |-> 0]
    /\ postVals' = [v \in Vars |-> {}]
    /\ isRamp' = [v \in Vars |-> TRUE]

\* the four time-state parameters as one record
TimeState ==
    [steps |-> steps, days_elapsed |-> days_elapsed,
     day_of_year_index |-> day_of_year_index, years_elapsed |-> years_elapsed]

\* store a time-state record into the parameters
SetTime(t) ==
    /\ steps' = t.steps
    /\ days_elapsed' = t.days_elapsed
    /\ day_of_year_index' = t.day_of_year_index
    /\ years_elapsed' = t.years_elapsed

(***************************************************************************)
(* set_timestep, lines 19-31.                                              *)
(***************************************************************************)
\* line 22: const.seconds_per_year / num_steps_per_year
TimestepOf(n) == RDiv(seconds_per_year, RInt(n))

\* line 23: timestep / const.seconds_per_day
TimestepDays(ts) == RDiv(ts, seconds_per_day)

\* line 24: np.arange(0., const.days_per_year, timestep_days); a negative
\* spacing gives the empty array
DaysOfYear(tsd) ==
    IF tsd[1] <= 0 THEN << >>
    ELSE LET q == RDiv(days_per_year, tsd)
             len == IF q[1] % q[2] = 0 THEN q[1] \div q[2]
                    ELSE (q[1] \div q[2]) + 1
         IN  [i \in 1..len |-> RMul(RInt(i - 1), tsd)]

\* lines 28-31: the four time-state parameters after a reset
ResetTime ==
    [steps |-> 0, days_elapsed |-> RInt(0),
     day_of_year_index |-> 0, years_elapsed |-> 0]

\* a variant of set_timestep's body that keeps the steps counter
set_timestep_body_keeps_steps(n) ==
    /\ num_steps_per_year' = n
    /\ IF n = 0
       THEN /\ outcome' = "ZeroDivisionError"
            /\ UNCHANGED <<timestep, days_of_year, timeVars>>
       ELSE /\ timestep' = TimestepOf(n)
            /\ days_of_year' = DaysOfYear(TimestepDays(TimestepOf(n)))
            /\ SetTime([ResetTime EXCEPT !.steps = steps])
            /\ outcome' = "return"

\* The body of set_timestep(n).  n = 0: line 21 has stored 0 when line 22
\* raises ZeroDivisionError (Python float division), so only
\* num_steps_per_year has changed.  Any other n runs to the end.
set_timestep_body(n) ==
    /\ num_steps_per_year' = n
    /\ IF n = 0
       THEN /\ outcome' = "ZeroDivisionError"
            /\ UNCHANGED <<timestep, days_of_year, timeVars>>
       ELSE /\ timestep' = TimestepOf(n)
            /\ days_of_year' = DaysOfYear(TimestepDays(TimestepOf(n)))
            /\ SetTime(ResetTime)
            /\ outcome' = "return"

set_timestep(n) ==
    /\ pc = "idle"
    /\ set_timestep_body(n)
    /\ op' = "set_timestep"
    /\ arg' = RInt(n)
    /\ entry' = TimeState
    /\ physDone' = 0
    /\ hostRaised' = FALSE
    /\ advances' = 0
    /\ numsteps' = 0
    /\ count' = 0
    /\ ResetAveObs
    /\ entryAve' = NoAve
    /\ retval' = "None"
    /\ UNCHANGED <<pc, state, state_timeave>>

(***************************************************************************)
(* __init__, lines 9-17: the state after construction.                     *)
(***************************************************************************)
Init ==
    /\ num_steps_per_year = DefaultStepsPerYear
    /\ timestep = TimestepOf(DefaultStepsPerYear)
    /\ days_of_year = DaysOfYear(TimestepDays(TimestepOf(DefaultStepsPerYear)))
    /\ steps = 0
    /\ days_elapsed = RInt(0)
    /\ day_of_year_index = 0
    /\ years_elapsed = 0
    /\ state \in [Vars -> Values]
    /\ state_timeave = NoAve
    /\ pc = "idle"
    /\ op = "init"
    /\ arg = RInt(DefaultStepsPerYear)
    /\ numsteps = 0
    /\ count = 0
    /\ outcome = "return"
    /\ retval = "None"
    /\ entry = ResetTime
    /\ physDone = 0
    /\ hostRaised = FALSE
    /\ advances = 0
    /\ postSum = [v \in Vars |-> 0]
    /\ postVals = [v \in Vars |-> {}]
    /\ isRamp = [v \in Vars |-> TRUE]
    /\ entryAve = NoAve

(***************************************************************************)
(* _update_time and _do_new_calendar_year, lines 39-53, as a function of   *)
(* the time state and the configuration.                                   *)
(***************************************************************************)
\* a variant of _do_new_calendar_year that forgets the year counter
do_new_calendar_year_no_year(t) ==
    [t EXCEPT !.day_of_year_index = 0]

\* a variant of _do_new_calendar_year that goes back to index 1
do_new_calendar_year_index_one(t) ==
    [t EXCEPT !.day_of_year_index = 1, !.years_elapsed = @ + 1]

\* lines 50-53
do_new_calendar_year(t) ==
    [t EXCEPT !.day_of_year_index = 0, !.years_elapsed = @ + 1]

\* a variant of _update_time whose rollover test is > instead of >=
update_time_late_rollover(t, nspy, ts) ==
    LET t1 == [t EXCEPT !.steps = @ + 1,
                        !.days_elapsed = RAdd(@, TimestepDays(ts))]
    IN  IF t1.day_of_year_index > nspy - 1
        THEN [t1 EXCEPT !.day_of_year_index = 0, !.years_elapsed = @ + 1]
        ELSE [t1 EXCEPT !.day_of_year_index = @ + 1]

\* a variant of _update_time that carries the excess of the index over
\* the bound into the new year
update_time_catch_up(t, nspy, ts) ==
    LET t1 == [t EXCEPT !.steps = @ + 1,
                        !.days_elapsed = RAdd(@, TimestepDays(ts))]
    IN  IF t1.day_of_year_index >= nspy - 1
        THEN [t1 EXCEPT !.day_of_year_index = @ - (nspy - 1),
                        !.years_elapsed = @ + 1]
        ELSE [t1 EXCEPT !.day_of_year_index = @ + 1]

\* a variant of _update_time that adds the timestep to days_elapsed only
\* when the year does not roll over
update_time_days_skip_rollover(t, nspy, ts) ==
    LET t1 == [t EXCEPT !.steps = @ + 1]
    IN  IF t1.day_of_year_index >= nspy - 1
        THEN [t1 EXCEPT !.day_of_year_index = 0, !.years_elapsed = @ + 1]
        ELSE [t1 EXCEPT !.day_of_year_index = @ + 1,
                        !.days_elapsed = RAdd(@, TimestepDays(ts))]

\* lines 42-48
update_time(t, nspy, ts) ==
    LET t1 == [t EXCEPT !.steps = @ + 1,
                        !.days_elapsed = RAdd(@, TimestepDays(ts))]
    IN  IF t1.day_of_year_index >= nspy - 1
        THEN do_new_calendar_year(t1)
        ELSE [t1 EXCEPT !.day_of_year_index = @ + 1]

(***************************************************************************)
(* step_forward, lines 33-37.  Line 36 is where a daughter class changes   *)
(* the model state; line 37 then advances the time state.                  *)
(***************************************************************************)
\* a public call of step_forward()
call_step_forward ==
    /\ pc = "idle"
    /\ steps < MaxSteps
    /\ pc' = "physics"
    /\ op' = "step_forward"
    /\ arg' = RInt(0)
    /\ numsteps' = 0
    /\ count' = 0
    /\ outcome' = "running"
    /\ entry' = TimeState
    /\ physDone' = 0
    /\ hostRaised' = FALSE
    /\ ResetAveObs
    /\ entryAve' = NoAve
    /\ UNCHANGED <<config, timeVars, state, state_timeave, advances, retval>>

\* line 36, the host's mutation of the state variables completes
host_mutation(s) ==
    /\ pc = "physics"
    /\ state' = s
    /\ pc' = "update_time"
    /\ physDone' = physDone + 1
    /\ UNCHANGED <<config, timeVars, state_timeave, op, arg, numsteps, count,
                   outcome, retval, entry, hostRaised, advances, aveObs,
                   entryAve>>

\* a variant of propagate: step_forward swallows the failure and goes on
propagate_swallowed ==
    /\ pc' = "update_time"
    /\ outcome' = outcome

\* a variant of propagate: the failed step is tried again
propagate_retried ==
    /\ pc' = "physics"
    /\ outcome' = outcome

\* An exception leaves step_forward (line 37 is skipped) and, inside an
\* integration call, the loop of lines 67-70 or 84-85: nothing catches it.
propagate ==
    /\ pc' = "idle"
    /\ outcome' = "PhysicalStepFailure"

\* line 36, the host's mutation raises, having left the state as s
host_failure(s) ==
    /\ pc = "physics"
    /\ state' = s
    /\ hostRaised' = TRUE
    /\ propagate
    /\ UNCHANGED <<config, timeVars, state_timeave, op, arg, numsteps, count,
                   retval, entry, physDone, advances, aveObs, entryAve>>

\* where control goes when _update_time returns to step_forward and
\* step_forward to its caller: out of the public call, to line 69 of
\* integrate_years, or to the next iteration of integrate_days' loop
after_step ==
    IF op = "step_forward"
    THEN pc' = "idle" /\ outcome' = "return" /\ count' = count
    ELSE IF op = "integrate_years"
    THEN pc' = "accumulate" /\ outcome' = outcome /\ count' = count
    ELSE pc' = "loop" /\ outcome' = outcome /\ count' = count + 1

\* line 37: self._update_time()
step_update_time ==
    /\ pc = "update_time"
    /\ SetTime(update_time(TimeState, num_steps_per_year, timestep))
    /\ after_step
    /\ advances' = advances + 1
    /\ UNCHANGED <<config, state, state_timeave, op, arg, numsteps, retval,
                   callObs, aveObs>>

(***************************************************************************)
(* integrate_years, lines 55-75.                                           *)
(***************************************************************************)
\* line 57
YearsNumsteps(nspy, years) == PyInt(RMul(RInt(nspy), years))

\* a variant of ZerosLike that goes on from the average the engine holds
ZerosLike_keeps_old(st) ==
    [v \in DOMAIN st |->
        IF v \in DOMAIN state_timeave THEN state_timeave[v] ELSE RInt(0)]

\* lines 63-65: np.zeros_like of every state variable
ZerosLike(st) == [v \in DOMAIN st |-> RInt(0)]

\* lines 57-65, up to the loop
integrate_years(years) ==
    /\ pc = "idle"
    /\ steps + YearsNumsteps(num_steps_per_year, years) <= MaxSteps
    /\ numsteps' = YearsNumsteps(num_steps_per_year, years)
    /\ state_timeave' = ZerosLike(state)
    /\ count' = 0
    /\ pc' = "loop"
    /\ op' = "integrate_years"
    /\ arg' = years
    /\ outcome' = "running"
    /\ entry' = TimeState
    /\ physDone' = 0
    /\ hostRaised' = FALSE
    /\ ResetAveObs
    /\ entryAve' = state_timeave
    /\ UNCHANGED <<config, timeVars, state, advances, retval>>

\* lines 69-70: state_timeave[varname] += value
Accumulated(ave, st) == [v \in DOMAIN st |-> RAdd(ave[v], RInt(st[v]))]

\* a variant of accumulate whose accumulator is the state array itself,
\* so that += doubles the state in place
accumulate_aliased ==
    /\ pc = "accumulate"
    /\ state' = [v \in Vars |-> state[v] + state[v]]
    /\ state_timeave' = [v \in Vars |-> RInt(state[v] + state[v])]
    /\ count' = count + 1
    /\ pc' = "loop"
    /\ postSum' = [v \in Vars |-> postSum[v] + state[v]]
    /\ postVals' = [v \in Vars |-> postVals[v] \cup {state[v]}]
    /\ isRamp' = [v \in Vars |-> isRamp[v] /\ state[v] = count + 1]
    /\ UNCHANGED <<config, timeVars, op, arg, numsteps, outcome,
                   retval, callObs, advances>>

accumulate ==
    /\ pc = "accumulate"
    /\ state_timeave' = Accumulated(state_timeave, state)
    /\ count' = count + 1
    /\ pc' = "loop"
    /\ postSum' = [v \in Vars |-> postSum[v] + state[v]]
    /\ postVals' = [v \in Vars |-> postVals[v] \cup {state[v]}]
    /\ isRamp' = [v \in Vars |-> isRamp[v] /\ state[v] = count + 1]
    /\ UNCHANGED <<config, timeVars, state, op, arg, numsteps, outcome,
                   retval, callObs, advances>>

\* a variant of Averaged with Python 2's integer division
Averaged_floor(ave, n) ==
    [v \in DOMAIN ave |->
        IF n = 0 THEN NaN ELSE RInt(RDiv(ave[v], RInt(n))[1] \div
                                    RDiv(ave[v], RInt(n))[2])]

\* lines 71-72: state_timeave[varname] /= numsteps.  With numsteps = 0 numpy
\* divides the zero array by zero: nan, and a warning, not an exception.
Averaged(ave, n) ==
    [v \in DOMAIN ave |-> IF n = 0 THEN NaN ELSE RDiv(ave[v], RInt(n))]

(***************************************************************************)
(* integrate_days, lines 77-88.                                            *)
(***************************************************************************)
\* line 79
DaysNumsteps(nspy, days) ==
    PyInt(RMul(RDiv(RInt(nspy), days_per_year), days))

\* line 79, up to the loop
integrate_days(days) ==
    /\ pc = "idle"
    /\ steps + DaysNumsteps(num_steps_per_year, days) <= MaxSteps
    /\ numsteps' = DaysNumsteps(num_steps_per_year, days)
    /\ count' = 0
    /\ pc' = "loop"
    /\ op' = "integrate_days"
    /\ arg' = days
    /\ outcome' = "running"
    /\ entry' = TimeState
    /\ physDone' = 0
    /\ hostRaised' = FALSE
    /\ ResetAveObs
    /\ entryAve' = NoAve
    /\ UNCHANGED <<config, timeVars, state, state_timeave, advances, retval>>

(***************************************************************************)
(* The loops, lines 67-68 and 84-85: for count in range(numsteps).         *)
(***************************************************************************)
\* a variant of loop_iterate that advances the time without the host's
\* mutation of the state
loop_iterate_skips_physics ==
    /\ pc = "loop"
    /\ count < numsteps
    /\ pc' = "update_time"
    /\ UNCHANGED <<config, timeVars, state, state_timeave, op, arg, numsteps,
                   count, outcome, retval, callObs, advances, aveObs>>

\* a variant of loop_iterate that allows one iteration too many
loop_iterate_one_more ==
    /\ pc = "loop"
    /\ count <= numsteps
    /\ pc' = "physics"
    /\ UNCHANGED <<config, timeVars, state, state_timeave, op, arg, numsteps,
                   count, outcome, retval, callObs, advances, aveObs>>

\* another iteration: self.step_forward()
loop_iterate ==
    /\ pc = "loop"
    /\ count < numsteps
    /\ pc' = "physics"
    /\ UNCHANGED <<config, timeVars, state, state_timeave, op, arg, numsteps,
                   count, outcome, retval, callObs, advances, aveObs>>

\* lines 71-75: the mean is left in the attribute state_timeave, and the
\* function ends without a return statement, so the call returns None
years_return ==
    /\ state_timeave' = Averaged(state_timeave, numsteps)
    /\ retval' = "None"

\* range(numsteps) is exhausted: integrate_years divides and returns
years_finish ==
    /\ pc = "loop"
    /\ op = "integrate_years"
    /\ count >= numsteps
    /\ years_return
    /\ pc' = "idle"
    /\ outcome' = "return"
    /\ UNCHANGED <<config, timeVars, state, op, arg, numsteps, count,
                   callObs, advances, aveObs>>

\* range(numsteps) is exhausted: integrate_days returns
days_finish ==
    /\ pc = "loop"
    /\ op = "integrate_days"
    /\ count >= numsteps
    /\ pc' = "idle"
    /\ outcome' = "return"
    /\ retval' = "None"
    /\ UNCHANGED <<config, timeVars, state, state_timeave, op, arg, numsteps,
                   count, callObs, advances, aveObs>>

(***************************************************************************)
(* The specifications.                                                     *)
(***************************************************************************)
\* every step but a call of set_timestep
Step ==
    \/ call_step_forward
    \/ \E s \in [Vars -> Values] : host_mutation(s)
    \/ \E s \in [Vars -> Values] : host_failure(s)
    \/ step_update_time
    \/ \E years \in YearsInputs : integrate_years(years)
    \/ accumulate
    \/ \E days \in DaysInputs : integrate_days(days)
    \/ loop_iterate
    \/ years_finish
    \/ days_finish

Next ==
    \/ \E n \in NInputs : set_timestep(n)
    \/ Step

Spec == Init /\ [][Next]_vars

\* callers that pass set_timestep positive integers only
NextValid ==
    \/ \E n \in ValidNInputs : set_timestep(n)
    \/ Step

SpecValid == Init /\ [][NextValid]_vars

\* the steps inside a call, with a host mutation that always returns
CallSteps ==
    \/ \E s \in [Vars -> Values] : host_mutation(s)
    \/ step_update_time
    \/ accumulate
    \/ loop_iterate
    \/ years_finish
    \/ days_finish

NextLive ==
    \/ \E n \in NInputs : set_timestep(n)
    \/ call_step_forward
    \/ \E years \in YearsInputs : integrate_years(years)
    \/ \E days \in DaysInputs : integrate_days(days)
    \/ CallSteps

\* A call, once made, runs on: the one thread of control executes the next
\* statement.  Callers are free to make no further call.
SpecLive == Init /\ [][NextLive]_vars /\ WF_vars(CallSteps)

(***************************************************************************)
(* Properties.                                                             *)
(***************************************************************************)
\* a call has finished and control is back with the caller
Returned(o) == pc = "idle" /\ op = o /\ outcome = "return"

\* mathematical floor of a rational
Floor(r) == r[1] \div r[2]

\* C1: with set_timestep only ever given positive integers (SpecValid), in
\* every reachable state 0 <= day_of_year_index < num_steps_per_year.
C1_DayIndexInRange ==
    0 <= day_of_year_index /\ day_of_year_index < num_steps_per_year

\* C1's case: the index sits on the last step of a year after a rollover
C1_Witness ==
    /\ num_steps_per_year = 2
    /\ day_of_year_index = num_steps_per_year - 1
    /\ years_elapsed = 1

\* C2: in every advance (every run of _update_time), years_elapsed goes up
\* by exactly 1 if and only if day_of_year_index goes from
\* num_steps_per_year - 1 to 0; in every other advance years_elapsed is
\* unchanged and day_of_year_index goes up by exactly 1.
C2_YearIncrementsExactlyOnWrap ==
    [][step_update_time =>
        LET wraps == /\ day_of_year_index = num_steps_per_year - 1
                     /\ day_of_year_index' = 0
        IN  /\ (years_elapsed' = years_elapsed + 1) <=> wraps
            /\ ~wraps => /\ years_elapsed' = years_elapsed
                         /\ day_of_year_index' = day_of_year_index + 1]_vars

\* C3: for positive n, once exactly n advances have run since
\* set_timestep(n), day_of_year_index = 0, years_elapsed = 1, steps = n.
C3_OneYearAfterNSteps ==
    (num_steps_per_year > 0 /\ advances = num_steps_per_year)
    => /\ day_of_year_index = 0
       /\ years_elapsed = 1
       /\ steps = num_steps_per_year

\* C3's case: set_timestep(2), then two calls of step_forward
C3_Witness ==
    /\ Returned("step_forward")
    /\ num_steps_per_year = 2
    /\ advances = 2

\* C4: set_timestep(n) with n positive, called in any reachable state,
\* yields num_steps_per_year = n and steps = 0, days_elapsed = 0,
\* years_elapsed = 0, day_of_year_index = 0.
C4_ReconfigureResets ==
    (pc = "idle" /\ op = "set_timestep" /\ arg[1] > 0)
    => /\ num_steps_per_year = arg[1]
       /\ steps = 0
       /\ days_elapsed = RInt(0)
       /\ years_elapsed = 0
       /\ day_of_year_index = 0

\* C4's case: set_timestep(n), n positive, called after a year has rolled over
C4_Witness ==
    /\ pc = "idle"
    /\ op = "set_timestep"
    /\ arg[1] > 0
    /\ entry.steps > 0
    /\ entry.years_elapsed > 0

\* the step counts the integration calls are to perform
FloorYears == Floor(RMul(RInt(num_steps_per_year), arg))

FloorDays == Floor(RMul(RDiv(RInt(num_steps_per_year), days_per_year), arg))

\* C5: an integration call that returns has advanced exactly its computed
\* number of steps, whenever that number is positive: integrate_years(years)
\* floor(num_steps_per_year * years) steps, integrate_days(days)
\* floor(num_steps_per_year / days_per_year * days) steps.
C5_ExactStepCount ==
    /\ (Returned("integrate_years") /\ FloorYears > 0)
       => /\ steps = entry.steps + FloorYears
          /\ physDone = FloorYears
    /\ (Returned("integrate_days") /\ FloorDays > 0)
       => /\ steps = entry.steps + FloorDays
          /\ physDone = FloorDays

\* C5's case: integrate_days(400.0) at two steps per year, after earlier steps
C5_Witness ==
    /\ Returned("integrate_days")
    /\ arg = RInt(400)
    /\ num_steps_per_year = 2
    /\ entry.steps > 0
    /\ steps = entry.steps + 2

\* 1 + 2 + ... + n
TriangleSum(n) == (n * (n + 1)) \div 2

C7_ZeroStepsRejected ==
    [][(\/ \E y \in YearsInputs :
              /\ integrate_years(y)
              /\ YearsNumsteps(num_steps_per_year, y) <= 0
        \/ \E d \in DaysInputs :
              /\ integrate_days(d)
              /\ DaysNumsteps(num_steps_per_year, d) <= 0)
       => /\ pc' = "idle"
          /\ outcome' = "ZeroSteps"
          /\ UNCHANGED <<timeVars, state, state_timeave>>]_vars

\* C8: set_timestep(n) with n <= 0 ends in an InvalidConfiguration error and
\* leaves num_steps_per_year, timestep and the time state as they were.
C8_InvalidConfigurationRejected ==
    [][(\E n \in NInputs : n <= 0 /\ set_timestep(n))
       => /\ outcome' = "InvalidConfiguration"
          /\ UNCHANGED <<num_steps_per_year, timestep, timeVars>>]_vars

\* C9: when the host's state mutation fails in a call of step_forward, the
\* call ends with that failure and steps, days_elapsed, day_of_year_index
\* and years_elapsed are as they were when the call began.
C9_FailedStepLeavesTime ==
    (op = "step_forward" /\ hostRaised)
    => /\ pc = "idle"
       /\ outcome = "PhysicalStepFailure"
       /\ TimeState = entry

\* C9's case: a failing step_forward after earlier successful steps
C9_Witness ==
    /\ op = "step_forward"
    /\ hostRaised
    /\ entry.steps > 0

\* the time state after k advances from t under the current configuration
RECURSIVE AdvanceN(_, _)
AdvanceN(t, k) ==
    IF k = 0 THEN t
    ELSE update_time(AdvanceN(t, k - 1), num_steps_per_year, timestep)

\* C10: when the host's state mutation fails at iteration j of an
\* integration call, the call ends with that failure, no further iteration
\* runs, and the time state is the one after exactly j - 1 advances from
\* the call's entry (j - 1 = physDone, the mutations that completed).
C10_FailureAbortsLoop ==
    (op \in {"integrate_years", "integrate_days"} /\ hostRaised)
    => /\ pc = "idle"
       /\ outcome = "PhysicalStepFailure"
       /\ count = physDone
       /\ physDone < numsteps
       /\ TimeState = AdvanceN(entry, physDone)

\* C10's case: integrate_years of two steps fails in its second step
C10_Witness ==
    /\ op = "integrate_years"
    /\ hostRaised
    /\ numsteps = 2
    /\ physDone = 1

\* C11: integrate_years hands the time-mean back as its return
\* value and keeps no average on the engine after the call.
C11_MeanReturnedNotKept ==
    Returned("integrate_years")
    => /\ retval = "mapping"
       /\ state_timeave = NoAve

\* the timestep in days as the claim writes it
ClaimTimestepDays ==
    RDiv(RDiv(seconds_per_year, RInt(num_steps_per_year)), seconds_per_day)

\* C12: after k advances since the last set_timestep, days_elapsed is k
\* times seconds_per_year / num_steps_per_year / seconds_per_day, wherever
\* that quotient is defined (num_steps_per_year # 0); the advance that rolls
\* the year over adds its timestep like any other.
C12_DaysElapsedIsStepsTimesTimestep ==
    num_steps_per_year # 0
    => days_elapsed = RMul(RInt(advances), ClaimTimestepDays)

\* C12's case: three advances at two steps per year, one of them the rollover
C12_Witness ==
    /\ num_steps_per_year = 2
    /\ advances = 3
    /\ years_elapsed = 1
    /\ days_elapsed = RMul(RInt(3), RDiv(days_per_year, RInt(2)))

\* the time advances of the call in progress (or last finished)
AdvancesInCall == steps - entry.steps

\* C13: in step_forward and in every loop iteration the time state advances
\* exactly once per completed host mutation and after it (the advances of
\* the call are the completed mutations, less the one whose advance is
\* next); in integrate_years the accumulation of an iteration runs after
\* both (the accumulations are the advances, less the one pending).
C13_AdvanceOncePerStepAfterMutation ==
    (op \in {"step_forward", "integrate_years", "integrate_days"})
    => /\ AdvancesInCall = IF pc = "update_time" THEN physDone - 1
                           ELSE physDone
       /\ pc = "accumulate" => op = "integrate_years"
       /\ op = "integrate_years"
          => count = IF pc = "accumulate" THEN AdvancesInCall - 1
                     ELSE AdvancesInCall

\* C13's case: second iteration of integrate_years, mutation and advance
\* done, accumulation next
C13_Witness ==
    /\ op = "integrate_years"
    /\ pc = "accumulate"
    /\ physDone = 2
    /\ AdvancesInCall = 2
    /\ count = 1

\* C14: an advance that starts with day_of_year_index >=
\* num_steps_per_year - 1, the index beyond the bound included, sets the
\* index to 0 and raises years_elapsed and steps by exactly 1.
C14_SingleRollover ==
    [][(step_update_time /\ day_of_year_index >= num_steps_per_year - 1)
       => /\ day_of_year_index' = 0
          /\ years_elapsed' = years_elapsed + 1
          /\ steps' = steps + 1]_vars

\* C14's case: a step_forward that began with index 1 under
\* num_steps_per_year = 0 (bound -1) has rolled over once
C14_Witness ==
    /\ Returned("step_forward")
    /\ num_steps_per_year = 0
    /\ entry.day_of_year_index = 1
    /\ day_of_year_index = 0
    /\ years_elapsed = entry.years_elapsed + 1
    /\ steps = entry.steps + 1

\* C15: the averaging of integrate_years only reads the state variables:
\* the steps integrate_years has and integrate_days has not (zeroing the
\* accumulator, accumulating, dividing) leave the state variable set, the
\* time state and the configuration as they are, and either call, when it
\* returns, leaves the time state of its entry advanced numsteps times.
C15_AveragingOnlyReads ==
    [][/\ (\/ accumulate
           \/ years_finish
           \/ \E y \in YearsInputs : integrate_years(y))
          => UNCHANGED <<state, timeVars, config>>
       /\ (years_finish \/ days_finish)
          => TimeState' = AdvanceN(entry, IF numsteps > 0 THEN numsteps ELSE 0)
      ]_vars

\* C15's case: integrate_years has run two steps and returned
C15_Witness ==
    /\ Returned("integrate_years")
    /\ numsteps = 2
    /\ steps = entry.steps + 2
    /\ \E v \in Vars : state[v] # 0

\* C16: every integrate_years call starts from an accumulator of zeros:
\* throughout the call the accumulator is the sum of the post-step values of
\* the call's own steps so far, and after the return it is that sum divided
\* by numsteps, whatever average the engine held before.
C16_AverageOfOwnStepsOnly ==
    op = "integrate_years"
    => \A v \in Vars :
          state_timeave[v] =
             IF Returned("integrate_years")
             THEN IF numsteps = 0 THEN NaN
                  ELSE RDiv(RInt(postSum[v]), RInt(numsteps))
             ELSE RInt(postSum[v])

\* C16's case: a call returns a mean that differs from the nonzero mean an
\* earlier integrate_years call had left on the engine
C16_Witness ==
    /\ Returned("integrate_years")
    /\ numsteps > 0
    /\ DOMAIN entryAve = Vars
    /\ \E v \in Vars : /\ entryAve[v] # RInt(0)
                       /\ ~IsNaN(entryAve[v])
                       /\ entryAve[v] # state_timeave[v]

\* p <= q for rationals
RLeq(p, q) == RAdd(q, <<-p[1], p[2]>>)[1] >= 0

\* C17: steps, days_elapsed and years_elapsed never decrease across a
\* transition other than set_timestep, and the time-state fields change
\* only in _update_time or in set_timestep.
C17_TimeMonotone ==
    [][/\ ~(\E n \in NInputs : set_timestep(n))
          => /\ steps' >= steps
             /\ years_elapsed' >= years_elapsed
             /\ RLeq(days_elapsed, days_elapsed')
       /\ timeVars' # timeVars
          => (step_update_time \/ \E n \in NInputs : set_timestep(n))]_vars

\* C18: every integration call with a positive step count n and a host
\* mutation that always returns eventually returns, after exactly n
\* iterations.
C18_IntegrationTerminates ==
    (/\ op \in {"integrate_years", "integrate_days"}
     /\ pc = "loop"
     /\ count = 0
     /\ numsteps > 0)
    ~> (/\ pc = "idle"
        /\ op \in {"integrate_years", "integrate_days"}
        /\ outcome = "return"
        /\ count = numsteps
        /\ physDone = numsteps)

\* C18's case: integrate_days has returned after its two iterations
C18_Witness ==
    /\ Returned("integrate_days")
    /\ numsteps = 2
    /\ count = 2
    /\ physDone = 2

\* C19: in every state reached from a set_timestep(n) with n positive by
\* advances and integration calls (num_steps_per_year holds the n of the
\* last set_timestep call),
\* steps = years_elapsed * num_steps_per_year + day_of_year_index.
C19_StepsDecomposition ==
    num_steps_per_year > 0
    => steps = years_elapsed * num_steps_per_year + day_of_year_index

\* C19's case: two full years at two steps per year
C19_Witness ==
    /\ num_steps_per_year = 2
    /\ years_elapsed = 2
    /\ steps = 4
=============================================================================
